---- MODULE Spec2Model ----
(***************************************************************************)
(* A model of the file organizer: FileOrganizerConfig.get_rules,           *)
(* FileOrganizer (classification, destination resolution, duplicate        *)
(* handling, organize_file / organize_folder, save_undo_log,                *)
(* undo_organization, _cleanup_empty_dirs) and the standalone undo tool     *)
(* undo_organizer.py.                                                       *)
(*                                                                          *)
(* A file name is a record [pre, base, sfx, ext]: the text                  *)
(* pre ++ base ++ "_k1" ++ "_k2" ... ++ ext, where sfx = <<k1, k2, ...>>,   *)
(* so that Path.stem is (pre, base, sfx) and Path.suffix is ext.            *)
(* A file path is [dir, name] with dir a sequence of directory names.       *)
(* The filesystem is fs (file path -> file, a file being [id, date]) and    *)
(* dirs (the set of directories that exist).                                *)
(***************************************************************************)
EXTENDS Integers, Sequences, FiniteSets, TLC

VARIABLES
    rules,          \* FileOrganizer.rules, as loaded by get_rules
    policy,         \* config setting handle_duplicates
    create_undo_log,\* config setting create_undo_log == 'True'
    dry_run,        \* the dry_run argument of the run
    dest,           \* destination_folder argument of organize_folder
    fs,             \* regular files: path -> [id, date]
    dirs,           \* existing directories
    pc,             \* position of the program
    running,        \* FileOrganizer.running
    all_files,      \* organize_folder: the enumerated files
    idx,            \* organize_folder: number of loop iterations done
    results,        \* organize_folder: results
    stats,          \* FileOrganizer.stats
    undo_log,       \* FileOrganizer.undo_log
    clock,          \* datetime.now(), a logical clock
    log_file,       \* content of the persisted undo log artifact
    tool,           \* which undo implementation runs
    operations,     \* undo: the loaded, reversed operations
    uidx,           \* undo: number of loop iterations done
    successful,     \* undo: successful_undos / successful
    failed,         \* undo: failed_undos / failed
    undo_results,   \* undo: results (engine only)
    outcome,        \* what the last call returned
    env,            \* number of environment events so far
    hist,           \* history: what happened, for stating the properties
    config_rules,   \* the RULES section of the persisted configuration
    threads,        \* the organize_thread workers start_organizing has started
    organize_button,\* state of the Organize button
    stop_button,    \* state of the Stop button
    after,          \* callbacks queued with root.after, oldest first
    artifacts,      \* the undo log files of the working directory: name -> content
    now,            \* datetime.now() at the resolution of a file name: seconds
    probe           \* handle_duplicate: the locals of its while loop

\* what only the presentation layer, the loading of the rules and a call of
\* handle_duplicate on its own change
gui_vars == <<config_rules, threads, organize_button, stop_button, after, artifacts, now,
              probe>>

vars == <<rules, policy, create_undo_log, dry_run, dest, fs, dirs, pc, running,
          all_files, idx, results, stats, undo_log, clock, log_file, tool,
          operations, uidx, successful, failed, undo_results, outcome, env, hist,
          gui_vars>>

-----------------------------------------------------------------------------
(* Bounds of the model *)

\* most files the source tree holds at the start
MaxSrcFiles == 2
\* most environment events (filesystem faults, deletions, log edits) in a behaviour
MaxEnv == 1
\* most organize threads the presentation layer starts in a behaviour
MaxThreads == 2
\* most entries the RULES section holds when the loading of rules is examined
MaxRules == 3
\* the seconds of wall-clock time a behaviour spans
MaxSeconds == 2

-----------------------------------------------------------------------------
(* Names, paths, sequences *)

Name(pre, base, sfx, ext) == [pre |-> pre, base |-> base, sfx |-> sfx, ext |-> ext]

FilePath(dir, name) == [dir |-> dir, name |-> name]

IsPrefix(s, t) == Len(s) <= Len(t) /\ SubSeq(t, 1, Len(s)) = s

IsStrictPrefix(s, t) == Len(s) < Len(t) /\ IsPrefix(s, t)

\* every directory on the way from the root to d, d included
Ancestors(d) == { SubSeq(d, 1, n) : n \in 1..Len(d) }

\* list.reverse()
Reverse(s) == [i \in 1..Len(s) |-> s[Len(s) + 1 - i]]

\* all the orders in which a finite set can be listed
RECURSIVE Perms(_)
Perms(S) ==
    IF S = {} THEN { <<>> }
    ELSE UNION { { <<x>> \o p : p \in Perms(S \ {x}) } : x \in S }

\* str.lower() on the extensions of the model
lower(ext) ==
    CASE ext = ".JPG" -> ".jpg"
      [] ext = ".Pdf" -> ".pdf"
      [] OTHER -> ext

\* str.capitalize() on the configuration keys of the model
capitalize(key) ==
    CASE key = "images" -> "Images"
      [] key = "documents" -> "Documents"
      [] key = "office" -> "Office"
      [] key = "audio" -> "Audio"
      [] key = "video" -> "Video"
      [] key = "archives" -> "Archives"
      [] key = "development" -> "Development"
      [] key = "software" -> "Software"
      [] key = "pictures" -> "Pictures"
      [] key = "broken" -> "Broken"
      [] OTHER -> key

-----------------------------------------------------------------------------
(* Rules *)

NoSubfolders == <<>>

\* one rule as json.loads gives it; has_* say which keys the object holds
RuleJson(has_ext, exts, by_date, has_fmt, fmt, has_subs, subs) ==
    [has_extensions |-> has_ext, extensions |-> exts,
     subfolder_by_date |-> by_date,
     has_date_format |-> has_fmt, date_format |-> fmt,
     has_subfolders |-> has_subs, subfolders |-> subs]

Sub(name, exts) == [name |-> name, extensions |-> exts]

\* a line of the RULES section: key = value
Entry(key, brace, rule) == [key |-> key, brace |-> brace, rule |-> rule]

NoRule == RuleJson(FALSE, {}, FALSE, FALSE, "%Y/%m", FALSE, NoSubfolders)

\* the keys of the DEFAULT section, which iterating the RULES section also yields
DefaultSectionEntries ==
    << Entry("source_folders", FALSE, NoRule),
       Entry("destination_folder", FALSE, NoRule),
       Entry("handle_duplicates", FALSE, NoRule),
       Entry("dry_run", FALSE, NoRule) >>

default_rules ==
    << Entry("images", TRUE,
         RuleJson(TRUE, {".jpg", ".jpeg", ".png", ".gif", ".bmp", ".tiff", ".svg",
                         ".webp", ".ico", ".heic"},
                  TRUE, TRUE, "%Y/%m", FALSE, NoSubfolders)),
       Entry("documents", TRUE,
         RuleJson(TRUE, {".pdf", ".doc", ".docx", ".txt", ".rtf", ".odt", ".pages"},
                  FALSE, FALSE, "%Y/%m", TRUE,
                  << Sub("PDFs", {".pdf"}),
                     Sub("Word Documents", {".doc", ".docx", ".odt"}),
                     Sub("Text Files", {".txt", ".rtf"}),
                     Sub("Other Documents", {}) >>)),
       Entry("office", TRUE,
         RuleJson(TRUE, {".xls", ".xlsx", ".ppt", ".pptx", ".odp", ".ods", ".csv",
                         ".numbers", ".keynote"},
                  FALSE, FALSE, "%Y/%m", TRUE,
                  << Sub("Spreadsheets", {".xls", ".xlsx", ".ods", ".csv", ".numbers"}),
                     Sub("Presentations", {".ppt", ".pptx", ".odp", ".keynote"}) >>)),
       Entry("audio", TRUE,
         RuleJson(TRUE, {".mp3", ".wav", ".flac", ".aac", ".ogg", ".wma", ".m4a"},
                  FALSE, FALSE, "%Y/%m", FALSE, NoSubfolders)),
       Entry("video", TRUE,
         RuleJson(TRUE, {".mp4", ".avi", ".mkv", ".mov", ".wmv", ".flv", ".webm", ".m4v"},
                  TRUE, TRUE, "%Y", FALSE, NoSubfolders)),
       Entry("archives", TRUE,
         RuleJson(TRUE, {".zip", ".rar", ".7z", ".tar", ".gz", ".bz2", ".xz"},
                  FALSE, FALSE, "%Y/%m", FALSE, NoSubfolders)),
       Entry("development", TRUE,
         RuleJson(TRUE, {".py", ".js", ".html", ".css", ".java", ".cpp", ".c", ".php",
                         ".rb", ".go", ".rs", ".swift"},
                  FALSE, FALSE, "%Y/%m", TRUE,
                  << Sub("Python", {".py"}),
                     Sub("Web", {".html", ".css", ".js"}),
                     Sub("Other Code", {}) >>)),
       Entry("software", TRUE,
         RuleJson(TRUE, {".exe", ".msi", ".dmg", ".pkg", ".deb", ".rpm", ".appimage"},
                  FALSE, FALSE, "%Y/%m", FALSE, NoSubfolders)) >>

\* a user-edited RULES section: overlapping extension sets, a rule with both a
\* sub-bucket table and date grouping, a rule without date_format
CustomRules ==
    << Entry("pictures", TRUE,
         RuleJson(TRUE, {".jpg", ".png"}, TRUE, TRUE, "%Y", TRUE,
                  << Sub("Raw", {".png"}), Sub("Misc", {}) >>)),
       Entry("images", TRUE,
         RuleJson(TRUE, {".jpg", ".jpeg", ".pdf"}, TRUE, FALSE, "%Y/%m", FALSE,
                  NoSubfolders)),
       Entry("documents", TRUE,
         RuleJson(TRUE, {".pdf", ".txt"}, FALSE, FALSE, "%Y/%m", TRUE,
                  << Sub("Text Files", {".txt"}) >>)) >>

\* a user-edited RULES section with an entry that is JSON but holds no extensions
BrokenRules ==
    << Entry("images", TRUE,
         RuleJson(TRUE, {".jpg", ".jpeg", ".png"}, TRUE, TRUE, "%Y/%m", FALSE,
                  NoSubfolders)),
       Entry("broken", TRUE,
         RuleJson(FALSE, {}, FALSE, FALSE, "%Y/%m", FALSE, NoSubfolders)),
       Entry("documents", TRUE,
         RuleJson(TRUE, {".pdf", ".txt"}, FALSE, FALSE, "%Y/%m", TRUE,
                  << Sub("PDFs", {".pdf"}) >>)) >>

RuleSections ==
    { default_rules \o DefaultSectionEntries,
      CustomRules \o DefaultSectionEntries,
      BrokenRules \o DefaultSectionEntries }

\* FileOrganizerConfig.get_rules: the entries that look like JSON, in the order
\* of the section, each under its capitalized key
RECURSIVE get_rules(_)
get_rules(section) ==
    IF section = <<>> THEN <<>>
    ELSE LET e == Head(section)
         IN  IF ~e.brace
             THEN get_rules(Tail(section))
             ELSE << [name |-> capitalize(e.key), rule |-> e.rule] >>
                  \o get_rules(Tail(section))


-----------------------------------------------------------------------------
(* Classification and destination resolution *)

\* what a lookup of rule['extensions'] raises when the rule holds no such key
KeyError == "KeyError: 'extensions'"

None == "<None>"

\* the loop of get_file_category over self.rules.items(), from rule i on
RECURSIVE ScanRules(_, _, _)
ScanRules(rs, i, extension) ==
    IF i > Len(rs) THEN "Other"
    ELSE IF ~rs[i].rule.has_extensions THEN KeyError
    ELSE IF extension \in rs[i].rule.extensions THEN rs[i].name
    ELSE ScanRules(rs, i + 1, extension)

\* FileOrganizer.get_file_category
get_file_category(rs, name) == ScanRules(rs, 1, lower(name.ext))

\* self.rules.get(category, {})
RuleOf(rs, category) ==
    IF \E i \in 1..Len(rs) : rs[i].name = category
    THEN rs[CHOOSE i \in 1..Len(rs) : rs[i].name = category].rule
    ELSE NoRule

\* the two loops of get_subfolder
RECURSIVE FirstSub(_, _, _)
FirstSub(subfolders, i, extension) ==
    IF i > Len(subfolders) THEN None
    ELSE IF extension \in subfolders[i].extensions THEN subfolders[i].name
    ELSE FirstSub(subfolders, i + 1, extension)

RECURSIVE FirstCatchAll(_, _)
FirstCatchAll(subfolders, i) ==
    IF i > Len(subfolders) THEN None
    ELSE IF subfolders[i].extensions = {} THEN subfolders[i].name
    ELSE FirstCatchAll(subfolders, i + 1)

\* FileOrganizer.get_subfolder
get_subfolder(name, subfolders) ==
    LET hit == FirstSub(subfolders, 1, lower(name.ext))
    IN  IF hit # None THEN hit ELSE FirstCatchAll(subfolders, 1)

\* the text of a year / of a zero-padded month, as strftime writes them
YearText(y) ==
    CASE y = 2023 -> "2023"
      [] y = 2024 -> "2024"
      [] OTHER -> "1970"

MonthText(m) ==
    CASE m = 1 -> "01" [] m = 2 -> "02" [] m = 3 -> "03" [] m = 4 -> "04"
      [] m = 5 -> "05" [] m = 6 -> "06" [] m = 7 -> "07" [] m = 8 -> "08"
      [] m = 9 -> "09" [] m = 10 -> "10" [] m = 11 -> "11" [] OTHER -> "12"

\* file_date.strftime(date_format), as the path components dest_path / text adds
strftime(date, date_format) ==
    IF date_format = "%Y" THEN << YearText(date.year) >>
    ELSE << YearText(date.year), MonthText(date.month) >>

\* a resolver that puts the date segment before the sub-bucket
DestinationDateFirst(rs, file, name, destination_base) ==
    LET category == get_file_category(rs, name)
        rule == RuleOf(rs, category)
        p1 == Append(destination_base, category)
        p2 == IF rule.subfolder_by_date
              THEN p1 \o strftime(file.date,
                                  IF rule.has_date_format THEN rule.date_format
                                  ELSE "%Y/%m")
              ELSE p1
        subfolder == IF rule.has_subfolders
                     THEN get_subfolder(name, rule.subfolders) ELSE None
    IN  [raised |-> category = KeyError,
         path |-> IF subfolder # None THEN Append(p2, subfolder) ELSE p2]

\* FileOrganizer.generate_destination_path; raised says that
\* get_file_category raised
generate_destination_path(rs, file, name, destination_base) ==
    LET category == get_file_category(rs, name)
        rule == RuleOf(rs, category)
        p1 == Append(destination_base, category)
        subfolder == IF rule.has_subfolders
                     THEN get_subfolder(name, rule.subfolders) ELSE None
        p2 == IF subfolder # None THEN Append(p1, subfolder) ELSE p1
        p3 == IF rule.subfolder_by_date
              THEN p2 \o strftime(file.date,
                                  IF rule.has_date_format THEN rule.date_format
                                  ELSE "%Y/%m")
              ELSE p2
    IN  [raised |-> category = KeyError, path |-> p3]

-----------------------------------------------------------------------------
(* Duplicate handling *)

\* numbered names that start at _2
NumberedFromTwo(destination, counter) ==
    FilePath(destination.dir,
             [destination.name EXCEPT !.sfx = Append(destination.name.sfx, counter + 1)])

\* parent / f"{base_name}_{counter}{extension}"
Numbered(destination, counter) ==
    FilePath(destination.dir,
             [destination.name EXCEPT !.sfx = Append(destination.name.sfx, counter)])

\* the while loop of handle_duplicate: original is the proposed path, whose
\* stem and suffix the numbered names are built from
RECURSIVE RenameLoop(_, _, _, _)
RenameLoop(existing, original, destination, counter) ==
    IF destination \in existing
    THEN RenameLoop(existing, original, Numbered(original, counter), counter + 1)
    ELSE destination

\* handle_duplicate's None, where a path is expected
NoPath == FilePath(<<>>, Name("", "<None>", <<>>, ""))

\* a duplicate handler that tries name_1 only
HandleDuplicateOneProbe(method, existing, destination) ==
    IF method = "skip" THEN NoPath
    ELSE IF method = "overwrite" THEN destination
    ELSE IF destination \in existing THEN Numbered(destination, 1) ELSE destination

\* a duplicate handler whose skip branch returns the proposed path
HandleDuplicateNoSkip(method, existing, destination) ==
    IF method = "skip" \/ method = "overwrite" THEN destination
    ELSE RenameLoop(existing, destination, destination, 1)

\* FileOrganizer.handle_duplicate; None is "do not move the file"
handle_duplicate(method, existing, destination) ==
    IF method = "skip" THEN NoPath
    ELSE IF method = "overwrite" THEN destination
    ELSE RenameLoop(existing, destination, destination, 1)


-----------------------------------------------------------------------------
(* The filesystem the runs start from *)

SourceRoot == << "S" >>

\* the destination_folder of the default configuration
ConfiguredDest == << "Organized Files" >>

\* the destination roots a run may be given: the configured one, and one
\* that lies inside the source tree
DestRoots == { ConfiguredDest, << "S", "Sorted" >> }

Date(y, m) == [year |-> y, month |-> m]

File(id, date) == [id |-> id, date |-> date]

Placed(path, file) == [path |-> path, file |-> file]

\* the files a source tree may hold
SourceFiles ==
    { Placed(FilePath(<< "S" >>, Name("", "a", <<>>, ".jpg")), File("a", Date(2023, 5))),
      Placed(FilePath(<< "S" >>, Name("", "b", <<>>, ".pdf")), File("b", Date(2024, 1))),
      Placed(FilePath(<< "S" >>, Name("", "photo", <<>>, ".jpg")),
             File("p", Date(2023, 5))),
      Placed(FilePath(<< "S", "sub" >>, Name("", "photo", <<>>, ".jpg")),
             File("q", Date(2023, 5))),
      Placed(FilePath(<< "S", "sub" >>, Name("", "photo", <<>>, ".JPG")),
             File("r", Date(2023, 5))) }

PhotoName == Name("", "photo", <<>>, ".jpg")

\* the files an earlier use may have left where photo.jpg of 2023-05 goes:
\* none, photo.jpg, or photo.jpg and photo_1.jpg
Leftovers(rs, d) ==
    LET dir == generate_destination_path(rs, File("x", Date(2023, 5)), PhotoName, d).path
        first == Placed(FilePath(dir, PhotoName), File("x", Date(2023, 5)))
        second == Placed(FilePath(dir, Name("", "photo", << 1 >>, ".jpg")),
                         File("y", Date(2023, 5)))
    IN  { {}, { first }, { first, second } }

\* the filesystem holding the placed files pl
FsOf(pl) == [p \in { x.path : x \in pl } |-> (CHOOSE x \in pl : x.path = p).file]

DirsOf(pl) == { SourceRoot } \cup UNION { Ancestors(x.path.dir) : x \in pl }

-----------------------------------------------------------------------------
(* organize_folder *)

\* a filter that knows the dot only
HiddenDotOnly(name) == name.pre = "."

Hidden(name) == name.pre \in { ".", "~" }

Children(ds, root) == { d \in ds : Len(d) = Len(root) + 1 /\ IsPrefix(root, d) }

\* os.walk(source_folder) with the filter of organize_folder: the files of a
\* directory, then its subdirectories one after the other; the order within a
\* directory listing is the filesystem's
RECURSIVE WalkOrders(_, _, _)
RECURSIVE WalkEach(_, _, _)
WalkEach(files, ds, subs) ==
    IF subs = <<>> THEN { <<>> }
    ELSE { a \o b : a \in WalkOrders(files, ds, Head(subs)),
                    b \in WalkEach(files, ds, Tail(subs)) }

WalkOrders(files, ds, root) ==
    LET here == { p \in files : p.dir = root /\ ~Hidden(p.name) }
    IN  { f \o r : f \in Perms(here),
                   r \in UNION { WalkEach(files, ds, s) : s \in Perms(Children(ds, root)) } }

Result(success, kind, source, destination) ==
    [success |-> success, kind |-> kind, source |-> source, destination |-> destination]

\* a log entry written with source and destination exchanged
MoveOperationSwapped(timestamp, source, destination) ==
    [timestamp |-> timestamp, source |-> destination, destination |-> source,
     shape |-> "record"]

MoveOperation(timestamp, source, destination) ==
    [timestamp |-> timestamp, source |-> source, destination |-> destination,
     shape |-> "record"]

\* a move that copies and leaves the source in place
MoveKeepsSource(files, src, dst) ==
    [p \in DOMAIN files \cup { dst } |-> IF p = dst THEN files[src] ELSE files[p]]

\* shutil.move(src, dst) for regular files: dst is replaced when it exists
Move(files, src, dst) ==
    [p \in (DOMAIN files \ { src }) \cup { dst } |->
        IF p = dst THEN files[src] ELSE files[p]]

\* Path.mkdir(parents=True, exist_ok=True)
Mkdir(ds, d) == ds \cup Ancestors(d)

\* organize_file that lets the exception of a failed move escape
OrganizeFileUncaught(source_path, fault) ==
    [fs |-> fs, dirs |-> dirs, undo_log |-> undo_log, stats |-> stats,
     result |-> Result(FALSE, "uncaught", source_path, NoPath)]

\* FileOrganizer.organize_file(source_path, dest, dry) run on the files and
\* directories, the undo log and the statistics of st: the new values of what
\* it may change and the (success, message) it returns.  fault names the
\* filesystem call that raises: "none", "mkdir" or "move".
organize_file_on(st, dry, source_path, fault) ==
    LET unchanged == [fs |-> st.fs, dirs |-> st.dirs, undo_log |-> st.undo_log,
                      stats |-> st.stats]
        counted == [unchanged EXCEPT !.stats = [st.stats EXCEPT !.errors = @ + 1]]
    IN  IF source_path \notin DOMAIN st.fs
        THEN unchanged @@ [result |-> Result(FALSE, "missing", source_path, NoPath)]
        ELSE
        LET generated == generate_destination_path(rules, st.fs[source_path],
                                                   source_path.name, dest)
            proposed == FilePath(generated.path, source_path.name)
            dest_file == IF proposed \in DOMAIN st.fs
                         THEN handle_duplicate(policy, DOMAIN st.fs, proposed)
                         ELSE proposed
        IN  IF generated.raised
            THEN counted @@ [result |-> Result(FALSE, "error", source_path, NoPath)]
            ELSE IF dest_file = NoPath
            THEN unchanged @@ [result |-> Result(FALSE, "skipped", source_path, NoPath)]
            ELSE IF dry
            THEN unchanged @@ [result |-> Result(TRUE, "would_move", source_path, dest_file)]
            ELSE IF fault = "mkdir"
            THEN counted @@ [result |-> Result(FALSE, "error", source_path, NoPath)]
            ELSE IF fault = "move"
            THEN [counted EXCEPT !.dirs = Mkdir(st.dirs, generated.path)]
                 @@ [result |-> Result(FALSE, "error", source_path, NoPath)]
            ELSE [fs |-> Move(st.fs, source_path, dest_file),
                  dirs |-> Mkdir(st.dirs, generated.path),
                  undo_log |-> IF create_undo_log
                               THEN Append(st.undo_log,
                                           MoveOperation(clock, source_path, dest_file))
                               ELSE st.undo_log,
                  stats |-> [st.stats EXCEPT !.moved = @ + 1],
                  result |-> Result(TRUE, "moved", source_path, dest_file)]

\* what organize_file reads and may change, as it is now
Current == [fs |-> fs, dirs |-> dirs, undo_log |-> undo_log, stats |-> stats]

\* an organize_file that logs the proposed path, not the one the file went to
OrganizeFileLogsProposed(source_path, fault) ==
    LET r == organize_file_on(Current, dry_run, source_path, fault)
    IN  IF r.result.kind = "moved" /\ create_undo_log
        THEN [r EXCEPT !.undo_log =
                 Append(undo_log,
                        MoveOperation(clock, source_path,
                                      FilePath(r.result.destination.dir,
                                               source_path.name)))]
        ELSE r

\* the call of organize_file in the loop of organize_folder
organize_file(source_path, fault) ==
    organize_file_on(Current, dry_run, source_path, fault)

\* whether organize_file(source_path, ...) reaches mkdir and the move
ReachesMove(source_path) ==
    /\ source_path \in DOMAIN fs
    /\ ~dry_run
    /\ LET generated == generate_destination_path(rules, fs[source_path],
                                                  source_path.name, dest)
           proposed == FilePath(generated.path, source_path.name)
       IN  /\ ~generated.raised
           /\ proposed \in DOMAIN fs => handle_duplicate(policy, DOMAIN fs, proposed) # NoPath

NoLogFile == [json |-> "absent", ops |-> <<>>]

NoOutcome == [call |-> "none", raised |-> FALSE, success |-> FALSE, message |-> "",
              restored |-> 0, failed |-> 0]

\* handle_duplicate is not running
NoProbe == [pc |-> "none", original |-> NoPath, destination |-> NoPath,
            counter |-> 0, checks |-> 0]

\* no undo log file in the working directory
NoArtifacts == [name \in {} |-> <<>>]

\* a FileOrganizer just constructed, and its window, over the files and the
\* directories ds
ConstructedOver(files, ds) ==
    /\ fs = files
    /\ dirs = ds
    /\ hist = [fs0 |-> files, dirs0 |-> ds,
               moves |-> <<>>, cancelled |-> FALSE,
               fs1 |-> files, dirs1 |-> ds,
               undo_order |-> <<>>, undo_cancelled |-> FALSE,
               undo_fault |-> FALSE, deleted |-> FALSE, edited |-> FALSE,
               saves |-> <<>>, overlapped |-> FALSE]
    /\ pc = "idle"
    /\ running = FALSE
    /\ all_files = <<>>
    /\ idx = 0
    /\ results = <<>>
    /\ stats = [moved |-> 0, errors |-> 0]
    /\ undo_log = <<>>
    /\ clock = 1
    /\ log_file = NoLogFile
    /\ tool = "none"
    /\ operations = <<>>
    /\ uidx = 0
    /\ successful = 0
    /\ failed = 0
    /\ undo_results = <<>>
    /\ outcome = NoOutcome
    /\ env = 0
    /\ threads = <<>>
    /\ organize_button = "normal"
    /\ stop_button = "disabled"
    /\ after = <<>>
    /\ artifacts = NoArtifacts
    /\ now = 1
    /\ probe = NoProbe

\* the same over the placed files pl and the directories they lie in
Constructed(pl) == ConstructedOver(FsOf(pl), DirsOf(pl))

Init ==
    /\ config_rules \in RuleSections
    /\ rules = get_rules(config_rules)
    /\ policy \in { "rename", "skip", "overwrite" }
    /\ create_undo_log \in BOOLEAN
    /\ dry_run \in BOOLEAN
    /\ dest \in DestRoots
    /\ \E src \in SUBSET SourceFiles, left \in Leftovers(rules, dest) :
          /\ 1 <= Cardinality(src) /\ Cardinality(src) <= MaxSrcFiles
          \* edited rules and a disabled undo log are tried with the configured
          \* destination and nothing left in it
          /\ rules # get_rules(default_rules \o DefaultSectionEntries) \/ ~create_undo_log
                => dest = ConfiguredDest /\ left = {}
          /\ ~create_undo_log
                => rules = get_rules(default_rules \o DefaultSectionEntries) /\ ~dry_run
          /\ Constructed(src \cup left)

\* main() / start_organizing: set the flag, call organize_folder, which
\* enumerates the eligible files of the source tree
StartOrganize ==
    /\ pc = "idle"
    /\ pc' = "organizing"
    /\ running' = TRUE
    /\ all_files' \in WalkOrders(DOMAIN fs, dirs, SourceRoot)
    /\ idx' = 0
    /\ results' = <<>>
    /\ UNCHANGED <<rules, policy, create_undo_log, dry_run, dest, fs, dirs, stats,
                   undo_log, clock, log_file, tool, operations, uidx, successful,
                   failed, undo_results, outcome, env, hist>>
    /\ UNCHANGED gui_vars

\* a loop that never looks at the flag
LoopNeverBreaks(flag) == TRUE

\* the test at the head of the loop of organize_folder: if not self.running: break
LoopGoesOn(flag) == flag

\* one iteration of the loop of organize_folder: the flag is read, the file
\* is organized, its outcome is appended
OrganizeStep(fault) ==
    /\ pc = "organizing"
    /\ idx < Len(all_files)
    /\ LoopGoesOn(running)
    /\ fault # "none" => env < MaxEnv /\ ReachesMove(all_files[idx + 1])
    /\ LET source_path == all_files[idx + 1]
           r == organize_file(source_path, fault)
       IN  /\ fs' = r.fs
           /\ dirs' = r.dirs
           /\ undo_log' = r.undo_log
           /\ stats' = r.stats
           /\ results' = Append(results, r.result)
           /\ clock' = IF r.result.kind = "moved" THEN clock + 1 ELSE clock
           /\ hist' = IF r.result.kind = "moved"
                      THEN [hist EXCEPT !.moves =
                               Append(@, [id |-> fs[source_path].id,
                                          source |-> source_path,
                                          destination |-> r.result.destination])]
                      ELSE hist
    /\ idx' = idx + 1
    /\ env' = IF fault = "none" THEN env ELSE env + 1
    /\ UNCHANGED <<rules, policy, create_undo_log, dry_run, dest, pc, running,
                   all_files, log_file, tool, operations, uidx, successful, failed,
                   undo_results, outcome>>
    /\ UNCHANGED gui_vars

\* the loop of organize_folder ends: every file was handled, or the flag is down
OrganizeEnd ==
    /\ pc = "organizing"
    /\ idx = Len(all_files) \/ ~LoopGoesOn(running)
    /\ pc' = "organized"
    /\ outcome' = [NoOutcome EXCEPT !.call = "organize_folder", !.success = TRUE]
    /\ hist' = [hist EXCEPT !.cancelled = idx < Len(all_files)]
    /\ UNCHANGED <<rules, policy, create_undo_log, dry_run, dest, fs, dirs, running,
                   all_files, idx, results, stats, undo_log, clock, log_file, tool,
                   operations, uidx, successful, failed, undo_results, env>>
    /\ UNCHANGED gui_vars

\* stop_organizing: the presentation side clears the flag
Stop ==
    /\ pc = "organizing" \/ (pc = "undoing" /\ tool = "engine")
    /\ running
    /\ running' = FALSE
    /\ UNCHANGED <<rules, policy, create_undo_log, dry_run, dest, fs, dirs, pc,
                   all_files, idx, results, stats, undo_log, clock, log_file, tool,
                   operations, uidx, successful, failed, undo_results, outcome, env,
                   hist>>
    /\ UNCHANGED gui_vars

\* FileOrganizer.save_undo_log as main() and organization_complete call it
SaveUndoLog ==
    /\ pc = "organized"
    /\ pc' = "saved"
    /\ log_file' = IF ~dry_run /\ undo_log # <<>>
                   THEN [json |-> "list", ops |-> undo_log]
                   ELSE log_file
    /\ UNCHANGED <<rules, policy, create_undo_log, dry_run, dest, fs, dirs, running,
                   all_files, idx, results, stats, undo_log, clock, tool, operations,
                   uidx, successful, failed, undo_results, outcome, env, hist>>
    /\ UNCHANGED gui_vars

-----------------------------------------------------------------------------
(* What happens to the artifacts between a run and its undo *)

\* the user deletes a file the log says was moved
UserDelete(p) ==
    /\ pc = "saved"
    /\ env < MaxEnv
    /\ log_file.json = "list"
    /\ p \in DOMAIN fs
    /\ \E i \in 1..Len(log_file.ops) : log_file.ops[i].destination = p
    /\ fs' = [q \in DOMAIN fs \ { p } |-> fs[q]]
    /\ env' = env + 1
    /\ hist' = [hist EXCEPT !.deleted = TRUE]
    /\ UNCHANGED <<rules, policy, create_undo_log, dry_run, dest, dirs, pc, running,
                   all_files, idx, results, stats, undo_log, clock, log_file, tool,
                   operations, uidx, successful, failed, undo_results, outcome>>
    /\ UNCHANGED gui_vars

\* what an edit can turn the log artifact into: text that is not JSON, a JSON
\* object, a JSON number, an empty list, or the list with one entry that has
\* lost a key or is a number
LogEdits(log) ==
    { [json |-> k, ops |-> <<>>] : k \in { "unreadable", "object", "number", "empty" } }
    \cup
    { [log EXCEPT !.ops[i].shape = sh] :
        i \in 1..Len(log.ops), sh \in { "no_source", "no_destination", "number" } }

EditLog(edited) ==
    /\ pc = "saved"
    /\ env < MaxEnv
    /\ edited \in LogEdits(log_file)
    /\ log_file' = edited
    /\ env' = env + 1
    /\ hist' = [hist EXCEPT !.edited = TRUE]
    /\ UNCHANGED <<rules, policy, create_undo_log, dry_run, dest, fs, dirs, pc, running,
                   all_files, idx, results, stats, undo_log, clock, tool, operations,
                   uidx, successful, failed, undo_results, outcome>>
    /\ UNCHANGED gui_vars

-----------------------------------------------------------------------------
(* Undo: FileOrganizer.undo_organization ("engine") and undo_organizer.py
   ("standalone") *)

UndoReturn(success, message) ==
    [call |-> "undo", raised |-> FALSE, success |-> success, message |-> message,
     restored |-> 0, failed |-> 0]

UndoRaise(message) ==
    [call |-> "undo", raised |-> TRUE, success |-> FALSE, message |-> message,
     restored |-> 0, failed |-> 0]

\* the value json.load gives is falsy
Falsy(log) == log.json = "empty" \/ (log.json = "list" /\ log.ops = <<>>)

\* a loader that takes the operations in the order of the log
LoadInOrder(t, log, confirm) ==
    [loaded |-> TRUE, operations |-> log.ops, outcome |-> NoOutcome]

\* the part of undo before its loop: open and parse the log, the empty check,
\* the confirmation of the standalone tool, operations.reverse()
Load(t, log, confirm) ==
    LET stop(o) == [loaded |-> FALSE, operations |-> <<>>, outcome |-> o]
    IN  IF log.json \in { "absent", "unreadable" }
        THEN stop(UndoReturn(FALSE, "Could not load undo log"))
        ELSE IF Falsy(log)
        THEN stop(UndoReturn(FALSE, "Undo log is empty"))
        ELSE IF t = "standalone" /\ log.json = "number"
        THEN stop(UndoRaise("TypeError: object of type 'int' has no len()"))
        ELSE IF t = "standalone" /\ ~confirm
        THEN stop(UndoReturn(FALSE, "Undo cancelled"))
        ELSE IF log.json # "list"
        THEN stop(UndoRaise("AttributeError: object has no attribute 'reverse'"))
        ELSE [loaded |-> TRUE, operations |-> Reverse(log.ops), outcome |-> NoOutcome]

StartUndo(t, confirm) ==
    /\ pc = "saved"
    /\ tool' = t
    /\ LET l == Load(t, log_file, confirm)
       IN  /\ operations' = l.operations
           /\ outcome' = l.outcome
           /\ pc' = IF l.loaded THEN "undoing" ELSE "undone"
    /\ uidx' = 0
    /\ successful' = 0
    /\ failed' = 0
    /\ undo_results' = <<>>
    /\ hist' = [hist EXCEPT !.fs1 = fs, !.dirs1 = dirs]
    /\ UNCHANGED <<rules, policy, create_undo_log, dry_run, dest, fs, dirs, running,
                   all_files, idx, results, stats, undo_log, clock, log_file, env>>
    /\ UNCHANGED gui_vars

\* an undo step that gives up on the first operation it cannot restore
UndoOperationAborts(operation, fault) ==
    IF operation.shape = "record" /\ operation.destination \in DOMAIN fs
    THEN [fs |-> Move(fs, operation.destination, operation.source),
          dirs |-> Mkdir(dirs, operation.source.dir),
          successful |-> successful + 1, failed |-> failed,
          raised |-> FALSE, kind |-> "restored"]
    ELSE [fs |-> fs, dirs |-> dirs, successful |-> successful, failed |-> failed + 1,
          raised |-> TRUE, kind |-> "uncaught"]

\* the body of the loop of undo for one operation: the new values of what it
\* may change; raised says that an exception left the handler
undo_operation(operation, fault) ==
    LET same == [fs |-> fs, dirs |-> dirs, successful |-> successful,
                 failed |-> failed, raised |-> FALSE]
        fail(kind) == [same EXCEPT !.failed = failed + 1] @@ [kind |-> kind]
    IN  IF operation.shape = "number"
        THEN [same EXCEPT !.raised = TRUE] @@ [kind |-> "uncaught"]
        ELSE IF operation.shape # "record"
        THEN fail("invalid")
        ELSE IF operation.destination \notin DOMAIN fs
        THEN fail("not_found")
        ELSE IF fault = "mkdir"
        THEN fail("exception")
        ELSE IF fault = "move"
        THEN [fail("exception") EXCEPT !.dirs = Mkdir(dirs, operation.source.dir)]
        ELSE [fs |-> Move(fs, operation.destination, operation.source),
              dirs |-> Mkdir(dirs, operation.source.dir),
              successful |-> successful + 1, failed |-> failed,
              raised |-> FALSE, kind |-> "restored"]

\* whether the body of the loop reaches mkdir and the move for this operation
ReachesRestore(operation) ==
    operation.shape = "record" /\ operation.destination \in DOMAIN fs

\* a cleanup that judges every directory by the tree as it was listed, before
\* anything was removed
CleanupTopDown(ds, files, root) ==
    ds \ { d \in ds : /\ IsStrictPrefix(root, d)
                      /\ ~\E p \in files : p.dir = d
                      /\ Children(ds, d) = {} }

\* os.walk(base, topdown=False) with the body of the cleanup loop: the
\* directories that remain
RECURSIVE CleanupTree(_, _, _)
RECURSIVE CleanupEach(_, _, _)
CleanupEach(ds, files, todo) ==
    IF todo = {} THEN ds
    ELSE LET c == CHOOSE c \in todo : TRUE
         IN  CleanupEach(CleanupTree(ds, files, c), files, todo \ { c })

CleanupTree(ds, files, root) ==
    LET listed == Children(ds, root)
        below == CleanupEach(ds, files, listed)
        empty(d) == /\ ~\E p \in files : p.dir = d
                    /\ Children(below, d) = {}
    IN  below \ { d \in listed : d \in below /\ empty(d) }

\* _cleanup_empty_dirs / cleanup_empty_dirs: the tree of the configured
\* destination folder, when it exists
cleanup_empty_dirs(ds, files) ==
    IF ConfiguredDest \in ds THEN CleanupTree(ds, files, ConfiguredDest) ELSE ds

\* one iteration of the loop of undo
UndoStep(fault) ==
    /\ pc = "undoing"
    /\ uidx < Len(operations)
    /\ tool = "engine" => running
    /\ fault # "none" => env < MaxEnv /\ ReachesRestore(operations[uidx + 1])
    /\ LET operation == operations[uidx + 1]
           r == undo_operation(operation, fault)
       IN  /\ fs' = r.fs
           /\ dirs' = r.dirs
           /\ successful' = r.successful
           /\ failed' = r.failed
           /\ undo_results' = Append(undo_results, r.kind)
           /\ pc' = IF r.raised THEN "undone" ELSE "undoing"
           /\ outcome' = IF r.raised
                         THEN UndoRaise("AttributeError: object has no attribute 'get'")
                         ELSE outcome
           /\ hist' = [hist EXCEPT !.undo_order = Append(@, operation.timestamp),
                                   !.undo_fault = @ \/ fault # "none"]
    /\ uidx' = uidx + 1
    /\ env' = IF fault = "none" THEN env ELSE env + 1
    /\ UNCHANGED <<rules, policy, create_undo_log, dry_run, dest, running, all_files,
                   idx, results, stats, undo_log, clock, log_file, tool, operations>>
    /\ UNCHANGED gui_vars

\* the loop of undo ends: the cleanup pass runs and undo returns its summary
UndoEnd ==
    /\ pc = "undoing"
    /\ uidx = Len(operations) \/ (tool = "engine" /\ ~running)
    /\ pc' = "undone"
    /\ dirs' = cleanup_empty_dirs(dirs, DOMAIN fs)
    /\ outcome' = [UndoReturn(TRUE, "Undo completed") EXCEPT
                      !.restored = successful, !.failed = failed]
    /\ hist' = [hist EXCEPT !.undo_cancelled = uidx < Len(operations)]
    /\ UNCHANGED <<rules, policy, create_undo_log, dry_run, dest, fs, running,
                   all_files, idx, results, stats, undo_log, clock, log_file, tool,
                   operations, uidx, successful, failed, undo_results, env>>
    /\ UNCHANGED gui_vars

Next ==
    \/ StartOrganize
    \/ \E fault \in { "none", "mkdir", "move" } : OrganizeStep(fault)
    \/ OrganizeEnd
    \/ Stop
    \/ SaveUndoLog
    \/ \E p \in DOMAIN fs : UserDelete(p)
    \/ \E edited \in LogEdits(log_file) : EditLog(edited)
    \/ \E t \in { "engine", "standalone" }, confirm \in BOOLEAN : StartUndo(t, confirm)
    \/ \E fault \in { "none", "mkdir", "move" } : UndoStep(fault)
    \/ UndoEnd

Spec == Init /\ [][Next]_vars

-----------------------------------------------------------------------------
(* The window: FileOrganizerGUI over one FileOrganizer, whose organize passes
   run in threads *)

\* what the window never touches
engine_vars == <<rules, policy, create_undo_log, dry_run, dest, pc, all_files, idx,
                 results, log_file, tool, operations, uidx, successful, failed,
                 undo_results, outcome, env, config_rules, probe>>

\* an organize_thread: where it is, the locals of its organize_folder call, and
\* for the properties the second it was started in and the timestamps of the
\* operations it logged
Thread(at, files, i, res, started, logged) ==
    [pc |-> at, all_files |-> files, idx |-> i, results |-> res,
     started |-> started, logged |-> logged]

\* a thread that has not returned from organize_folder
Active(t) == threads[t].pc \in { "started", "organizing" }

InitGui ==
    /\ config_rules = default_rules \o DefaultSectionEntries
    /\ rules = get_rules(config_rules)
    /\ policy \in { "rename", "skip", "overwrite" }
    /\ create_undo_log = TRUE
    /\ dry_run \in BOOLEAN
    /\ dest \in DestRoots
    /\ \E src \in SUBSET SourceFiles :
          /\ 1 <= Cardinality(src) /\ Cardinality(src) <= MaxSrcFiles
          /\ dry_run => dest = ConfiguredDest /\ policy = "rename"
          /\ Constructed(src)

\* start_organizing, the command of the Organize button: clear_results empties
\* the statistics, the buttons change, the flag is set, a thread is started
start_organizing ==
    /\ organize_button = "normal"
    /\ Len(threads) < MaxThreads
    /\ SourceRoot \in dirs
    /\ stats' = [moved |-> 0, errors |-> 0]
    /\ organize_button' = "disabled"
    /\ stop_button' = "normal"
    /\ running' = TRUE
    /\ threads' = Append(threads, Thread("started", <<>>, 0, <<>>, now, {}))
    /\ hist' = [hist EXCEPT !.overlapped =
                   @ \/ after # <<>> \/ \E t \in DOMAIN threads : Active(t)]
    /\ UNCHANGED <<fs, dirs, undo_log, clock, after, artifacts, now, engine_vars>>

\* organize_thread enters organize_folder, which enumerates the source tree
organize_thread_walk(t) ==
    /\ threads[t].pc = "started"
    /\ \E files \in WalkOrders(DOMAIN fs, dirs, SourceRoot) :
          threads' = [threads EXCEPT ![t].pc = "organizing", ![t].all_files = files]
    /\ UNCHANGED <<fs, dirs, running, stats, undo_log, clock, hist, organize_button,
                   stop_button, after, artifacts, now, engine_vars>>

\* one iteration of the loop of organize_folder in thread t
organize_thread_step(t) ==
    /\ threads[t].pc = "organizing"
    /\ threads[t].idx < Len(threads[t].all_files)
    /\ LoopGoesOn(running)
    /\ LET source_path == threads[t].all_files[threads[t].idx + 1]
           r == organize_file(source_path, "none")
           moved == r.result.kind = "moved"
       IN  /\ fs' = r.fs
           /\ dirs' = r.dirs
           /\ undo_log' = r.undo_log
           /\ stats' = r.stats
           /\ clock' = IF moved THEN clock + 1 ELSE clock
           /\ threads' = [threads EXCEPT
                             ![t].idx = @ + 1,
                             ![t].results = Append(@, r.result),
                             ![t].logged = IF moved THEN @ \cup { clock } ELSE @]
    /\ UNCHANGED <<running, hist, organize_button, stop_button, after, artifacts, now,
                   engine_vars>>

\* organize_folder returns in thread t, which queues organization_complete
organize_thread_end(t) ==
    /\ threads[t].pc = "organizing"
    /\ threads[t].idx = Len(threads[t].all_files) \/ ~LoopGoesOn(running)
    /\ threads' = [threads EXCEPT ![t].pc = "done"]
    /\ after' = Append(after, t)
    /\ UNCHANGED <<fs, dirs, running, stats, undo_log, clock, hist, organize_button,
                   stop_button, artifacts, now, engine_vars>>

\* FileOrganizer.save_undo_log: the file name it writes, from now()
LogFileName(second) == second

\* save_undo_log on the files of the working directory
save_undo_log(files, log, second) ==
    IF log # <<>>
    THEN [name \in DOMAIN files \cup { LogFileName(second) } |->
             IF name = LogFileName(second) THEN log ELSE files[name]]
    ELSE files

\* organization_complete, run by the main loop for the oldest queued callback
organization_complete ==
    /\ after # <<>>
    /\ after' = Tail(after)
    /\ organize_button' = "normal"
    /\ stop_button' = "disabled"
    /\ artifacts' = IF ~dry_run THEN save_undo_log(artifacts, undo_log, now)
                    ELSE artifacts
    /\ hist' = IF ~dry_run /\ undo_log # <<>>
               THEN [hist EXCEPT !.saves =
                        Append(@, [run |-> Head(after), name |-> LogFileName(now),
                                   ops |-> undo_log,
                                   replaced |-> LogFileName(now) \in DOMAIN artifacts])]
               ELSE hist
    /\ UNCHANGED <<fs, dirs, running, stats, undo_log, clock, threads, now, engine_vars>>

\* stop_organizing, the command of the Stop button
stop_organizing ==
    /\ stop_button = "normal"
    /\ running' = FALSE
    /\ organize_button' = "normal"
    /\ stop_button' = "disabled"
    /\ UNCHANGED <<fs, dirs, stats, undo_log, clock, hist, threads, after, artifacts,
                   now, engine_vars>>

\* a second of wall-clock time passes
Tick ==
    /\ now < MaxSeconds
    /\ now' = now + 1
    /\ UNCHANGED <<fs, dirs, running, stats, undo_log, clock, hist, threads,
                   organize_button, stop_button, after, artifacts, engine_vars>>

NextGui ==
    \/ start_organizing
    \/ \E t \in DOMAIN threads : organize_thread_walk(t)
    \/ \E t \in DOMAIN threads : organize_thread_step(t)
    \/ \E t \in DOMAIN threads : organize_thread_end(t)
    \/ organization_complete
    \/ stop_organizing
    \/ Tick

SpecGui == InitGui /\ [][NextGui]_vars



-----------------------------------------------------------------------------
(* Source trees that hold hidden and temporary files, and a directory named
   like a file *)

\* regular files: one in the source root, one in a directory named album.jpg
PlainFiles ==
    { Placed(FilePath(<< "S" >>, Name("", "a", <<>>, ".jpg")), File("a", Date(2023, 5))),
      Placed(FilePath(<< "S", "album.jpg" >>, Name("", "photo", <<>>, ".jpg")),
             File("d", Date(2023, 5))) }

\* files whose names start with a dot or a tilde: in the source tree, and where
\* photo.jpg of 2023-05 goes
HiddenFiles(rs, d) ==
    { Placed(FilePath(<< "S" >>, Name(".", "photo", <<>>, ".jpg")),
             File("h", Date(2023, 5))),
      Placed(FilePath(<< "S", "album.jpg" >>, Name("~", "a", <<>>, ".jpg")),
             File("t", Date(2023, 5))),
      Placed(FilePath(generate_destination_path(rs, File("k", Date(2023, 5)),
                                                PhotoName, d).path,
                      Name(".", "photo", <<>>, ".jpg")),
             File("k", Date(2023, 5))) }

InitHidden ==
    /\ config_rules = default_rules \o DefaultSectionEntries
    /\ rules = get_rules(config_rules)
    /\ policy \in { "rename", "skip", "overwrite" }
    /\ create_undo_log = TRUE
    /\ dry_run \in BOOLEAN
    /\ dest \in DestRoots
    /\ \E src \in SUBSET PlainFiles, hidden \in SUBSET HiddenFiles(rules, dest) :
          /\ src # {} /\ hidden # {}
          /\ Constructed(src \cup hidden)

SpecHidden == InitHidden /\ [][Next]_vars

-----------------------------------------------------------------------------
(* Loading the rules: FileOrganizer.__init__ over a configuration file, and
   classification with what was loaded *)

\* the value of a RULES entry that starts with a brace and is not JSON
Unparsable == [json |-> "invalid"]

\* what json.loads raises on it
JSONDecodeError == "JSONDecodeError"

\* the entries a RULES section may hold: two rules as the defaults have them, a
\* JSON object without extensions, a text that starts with a brace and is not
\* JSON, a text that is no rule at all
RuleEntries ==
    { Entry("images", TRUE,
            RuleJson(TRUE, {".jpg", ".jpeg", ".png"}, TRUE, TRUE, "%Y/%m", FALSE,
                     NoSubfolders)),
      Entry("documents", TRUE,
            RuleJson(TRUE, {".pdf", ".txt"}, FALSE, FALSE, "%Y/%m", TRUE,
                     << Sub("PDFs", {".pdf"}) >>)),
      Entry("broken", TRUE,
            RuleJson(FALSE, {}, FALSE, FALSE, "%Y/%m", FALSE, NoSubfolders)),
      Entry("audio", TRUE, Unparsable),
      Entry("video", FALSE, NoRule) }

\* the RULES sections of at most MaxRules of these entries, in any order
RECURSIVE SectionsOf(_, _)
SectionsOf(entries, n) ==
    IF n = 0 THEN { <<>> }
    ELSE { <<>> } \cup
         UNION { { << e >> \o rest : rest \in SectionsOf(entries \ { e }, n - 1) } :
                 e \in entries }

\* FileOrganizer.__init__: self.rules = self.config.get_rules(), in which
\* json.loads raises on an entry that is not JSON
NewFileOrganizer(section) ==
    IF \E i \in 1..Len(section) : section[i].brace /\ section[i].rule = Unparsable
    THEN [raised |-> TRUE, rules |-> <<>>]
    ELSE [raised |-> FALSE, rules |-> get_rules(section)]

InitRules ==
    /\ config_rules \in { section \o DefaultSectionEntries :
                             section \in SectionsOf(RuleEntries, MaxRules) }
    /\ rules = <<>>
    /\ policy = "rename"
    /\ create_undo_log = TRUE
    /\ dry_run = FALSE
    /\ dest = ConfiguredDest
    /\ Constructed({})

\* the program starts: FileOrganizer() is constructed, or the exception leaves
\* the constructor
LoadRules ==
    /\ pc = "idle"
    /\ LET o == NewFileOrganizer(config_rules)
       IN  /\ pc' = IF o.raised THEN "crashed" ELSE "constructed"
           /\ rules' = o.rules
           /\ outcome' = [NoOutcome EXCEPT !.call = "FileOrganizer",
                                           !.raised = o.raised,
                                           !.success = ~o.raised,
                                           !.message = IF o.raised THEN JSONDecodeError
                                                       ELSE ""]
    /\ UNCHANGED <<policy, create_undo_log, dry_run, dest, fs, dirs, running,
                   all_files, idx, results, stats, undo_log, clock, log_file, tool,
                   operations, uidx, successful, failed, undo_results, env, hist,
                   gui_vars>>

\* get_file_category is called for a file with this extension
Classify(ext) ==
    /\ pc = "constructed"
    /\ LET category == get_file_category(rules, Name("", "f", <<>>, ext))
       IN  outcome' = [NoOutcome EXCEPT !.call = "get_file_category",
                                        !.raised = category = KeyError,
                                        !.success = category # KeyError,
                                        !.message = category]
    /\ UNCHANGED <<rules, policy, create_undo_log, dry_run, dest, fs, dirs, pc,
                   running, all_files, idx, results, stats, undo_log, clock, log_file,
                   tool, operations, uidx, successful, failed, undo_results, env, hist,
                   gui_vars>>

NextRules ==
    \/ LoadRules
    \/ \E ext \in { ".jpg", ".JPG", ".pdf", ".txt", ".mp3", ".xyz" } : Classify(ext)

SpecRules == InitRules /\ [][NextRules]_vars

-----------------------------------------------------------------------------
(* A run and its undo when the user puts a new file where a moved one was *)

\* between the run and its undo the user saves a new file under the path a
\* moved file had
UserCreate(p) ==
    /\ pc = "saved"
    /\ env < MaxEnv
    /\ log_file.json = "list"
    /\ p \notin DOMAIN fs
    /\ p.dir \in dirs
    /\ \E i \in 1..Len(log_file.ops) : log_file.ops[i].source = p
    /\ fs' = [q \in DOMAIN fs \cup { p } |->
                IF q = p THEN File("new", Date(2024, 1)) ELSE fs[q]]
    /\ env' = env + 1
    /\ UNCHANGED <<rules, policy, create_undo_log, dry_run, dest, dirs, pc, running,
                   all_files, idx, results, stats, undo_log, clock, log_file, tool,
                   operations, uidx, successful, failed, undo_results, outcome, hist>>
    /\ UNCHANGED gui_vars

InitReuse ==
    /\ config_rules = default_rules \o DefaultSectionEntries
    /\ rules = get_rules(config_rules)
    /\ policy \in { "rename", "skip", "overwrite" }
    /\ create_undo_log = TRUE
    /\ dry_run = FALSE
    /\ dest \in DestRoots
    /\ \E src \in SUBSET SourceFiles :
          /\ 1 <= Cardinality(src) /\ Cardinality(src) <= MaxSrcFiles
          /\ Constructed(src)

NextReuse ==
    \/ Next
    \/ \E p \in { op.source : op \in { log_file.ops[i] : i \in 1..Len(log_file.ops) } } :
          UserCreate(p)

SpecReuse == InitReuse /\ [][NextReuse]_vars

-----------------------------------------------------------------------------
(* handle_duplicate on its own: the while loop of the rename branch, one
   existence check at a time *)

\* the directory photo.jpg of 2023-05 goes to under the default rules
ProbeDir ==
    generate_destination_path(get_rules(default_rules \o DefaultSectionEntries),
                              File("p", Date(2023, 5)), PhotoName, ConfiguredDest).path

\* the path proposed for the file, which exists
Proposed == Placed(FilePath(ProbeDir, PhotoName), File("x", Date(2023, 5)))

\* what else may exist: numbered names of the file in the directory, a
\* numbered name of a numbered name, another file, and a numbered name in
\* another directory
ProbeNeighbours ==
    { Placed(FilePath(ProbeDir, Name("", "photo", << 1 >>, ".jpg")), File("n1", Date(2023, 5))),
      Placed(FilePath(ProbeDir, Name("", "photo", << 2 >>, ".jpg")), File("n2", Date(2023, 5))),
      Placed(FilePath(ProbeDir, Name("", "photo", << 3 >>, ".jpg")), File("n3", Date(2023, 5))),
      Placed(FilePath(ProbeDir, Name("", "photo", << 1, 1 >>, ".jpg")),
             File("n11", Date(2023, 5))),
      Placed(FilePath(ProbeDir, Name("", "other", <<>>, ".jpg")), File("o", Date(2023, 5))),
      Placed(FilePath(SourceRoot, Name("", "photo", << 1 >>, ".jpg")),
             File("s1", Date(2023, 5))) }

InitProbe ==
    /\ config_rules = default_rules \o DefaultSectionEntries
    /\ rules = get_rules(config_rules)
    /\ policy = "rename"
    /\ create_undo_log = TRUE
    /\ dry_run = FALSE
    /\ dest = ConfiguredDest
    /\ \E others \in SUBSET ProbeNeighbours : Constructed({ Proposed } \cup others)

\* handle_duplicate is called with a destination that exists and reaches its
\* rename branch: counter = 1, base_name, extension and parent are taken
CallHandleDuplicate ==
    /\ probe.pc = "none"
    /\ policy \notin { "skip", "overwrite" }
    /\ Proposed.path \in DOMAIN fs
    /\ probe' = [pc |-> "probing", original |-> Proposed.path,
                 destination |-> Proposed.path, counter |-> 1, checks |-> 0]
    /\ UNCHANGED <<rules, policy, create_undo_log, dry_run, dest, fs, dirs, pc, running,
                   all_files, idx, results, stats, undo_log, clock, log_file, tool,
                   operations, uidx, successful, failed, undo_results, outcome, env,
                   hist, config_rules, threads, organize_button, stop_button, after,
                   artifacts, now>>

\* one evaluation of destination.exists() at the head of the while loop, and
\* the body of the loop or the return that follows it
ProbeStep ==
    /\ probe.pc = "probing"
    /\ probe' = IF probe.destination \in DOMAIN fs
                THEN [probe EXCEPT !.destination = Numbered(probe.original, probe.counter),
                                   !.counter = @ + 1,
                                   !.checks = @ + 1]
                ELSE [probe EXCEPT !.pc = "returned", !.checks = @ + 1]
    /\ UNCHANGED <<rules, policy, create_undo_log, dry_run, dest, fs, dirs, pc, running,
                   all_files, idx, results, stats, undo_log, clock, log_file, tool,
                   operations, uidx, successful, failed, undo_results, outcome, env,
                   hist, config_rules, threads, organize_button, stop_button, after,
                   artifacts, now>>

NextProbe == CallHandleDuplicate \/ ProbeStep

\* the call runs on: a loop of a sequential program takes its next step
SpecProbe == InitProbe /\ [][NextProbe]_vars /\ WF_vars(NextProbe)

-----------------------------------------------------------------------------
(* The cleanup pass on its own: _cleanup_empty_dirs / cleanup_empty_dirs run
   on a tree, and run again *)

\* the directories a tree below the configured destination may hold
TreeDirs ==
    { ConfiguredDest \o d :
        d \in { <<>>, << "Images" >>, << "Images", "2023" >>,
                << "Images", "2023", "05" >>, << "Documents" >>,
                << "Documents", "PDFs" >> } }

\* the trees: sets of directories that hold the parents of their members
Trees == { ds \in SUBSET TreeDirs : \A d \in ds : Ancestors(d) \subseteq ds }

InitCleanup ==
    /\ config_rules = default_rules \o DefaultSectionEntries
    /\ rules = get_rules(config_rules)
    /\ policy = "rename"
    /\ create_undo_log = TRUE
    /\ dry_run = FALSE
    /\ dest = ConfiguredDest
    /\ \E ds \in Trees, holding \in SUBSET TreeDirs :
          /\ holding \subseteq ds
          /\ ConstructedOver(FsOf({ Placed(FilePath(d, PhotoName),
                                           File("x", Date(2023, 5))) : d \in holding }),
                             ds \cup { SourceRoot })

\* one call of the cleanup pass; the tree the first call leaves is kept for the
\* properties
CleanupPass ==
    /\ pc \in { "idle", "cleaned" }
    /\ pc' = IF pc = "idle" THEN "cleaned" ELSE "cleaned twice"
    /\ dirs' = cleanup_empty_dirs(dirs, DOMAIN fs)
    /\ outcome' = [NoOutcome EXCEPT !.call = "cleanup"]
    /\ hist' = IF pc = "idle" THEN [hist EXCEPT !.fs1 = fs, !.dirs1 = dirs'] ELSE hist
    /\ UNCHANGED <<rules, policy, create_undo_log, dry_run, dest, fs, running,
                   all_files, idx, results, stats, undo_log, clock, log_file, tool,
                   operations, uidx, successful, failed, undo_results, env, gui_vars>>

NextCleanup == CleanupPass

SpecCleanup == InitCleanup /\ [][NextCleanup]_vars

-----------------------------------------------------------------------------
(* Properties *)

DefaultRuleSet == get_rules(default_rules \o DefaultSectionEntries)

CustomRuleSet == get_rules(CustomRules \o DefaultSectionEntries)

BrokenRuleSet == get_rules(BrokenRules \o DefaultSectionEntries)

\* the loop of organize_folder has just done one iteration
OrganizeStepTaken == pc = "organizing" /\ pc' = "organizing" /\ idx' = idx + 1

\* the loop of undo has just done one iteration
UndoStepTaken == pc = "undoing" /\ uidx' = uidx + 1

\* undo ran to its end over the log the run wrote, with nothing interfering
UndoOfOwnLogDone ==
    /\ pc = "undone"
    /\ outcome.call = "undo" /\ outcome.success
    /\ ~dry_run /\ create_undo_log
    /\ ~hist.edited /\ ~hist.deleted /\ ~hist.undo_fault /\ ~hist.undo_cancelled

\* every file the run moved is back at the path it was moved from
AllRestored ==
    \A i \in 1..Len(hist.moves) :
        /\ hist.moves[i].source \in DOMAIN fs
        /\ fs[hist.moves[i].source].id = hist.moves[i].id

\* C1 as stated: for every duplicate-handling policy, organizing and then
\* undoing with the log of that run puts every moved file back at its
\* original path.
C1_RoundTripAnyPolicy == UndoOfOwnLogDone => AllRestored

\* C1, amended: under the policies rename and skip, organizing and then undoing
\* with the log of that run puts every moved file back at its original path.
C1_RoundTrip == policy \in { "rename", "skip" } /\ UndoOfOwnLogDone => AllRestored

C1_Witness ==
    /\ UndoOfOwnLogDone
    /\ policy = "rename"
    /\ Len(hist.moves) >= 2
    /\ \E i \in 1..Len(hist.moves) : hist.moves[i].destination.name.sfx # <<>>
    /\ AllRestored

\* C2: a dry-run pass that ran to its end left the files, the directories, the
\* undo log and the statistics as they were, and returned one outcome per
\* eligible file.
C2_DryRunChangesNothing ==
    dry_run /\ pc = "organized" /\ ~hist.cancelled
        => /\ fs = hist.fs0
           /\ dirs = hist.dirs0
           /\ undo_log = <<>>
           /\ stats = [moved |-> 0, errors |-> 0]
           /\ Len(results) = Len(all_files)

\* the file a step of the loop has just moved went to the proposed name, or
\* to the first name_k that did not exist
FirstFreeName ==
    LET source_path == all_files[idx + 1]
        last == results'[Len(results')]
        d == last.destination
        proposed == FilePath(d.dir, source_path.name)
    IN  last.kind = "moved"
        => /\ d \notin DOMAIN fs
           /\ \/ d = proposed
              \/ \E k \in 1..(Cardinality(DOMAIN fs) + 1) :
                    /\ d = Numbered(proposed, k)
                    /\ proposed \in DOMAIN fs
                    /\ \A j \in 1..(k - 1) : Numbered(proposed, j) \in DOMAIN fs

\* every file other than the one being organized is where it was, unchanged
OthersKept ==
    \A p \in DOMAIN fs \ { all_files[idx + 1] } : p \in DOMAIN fs' /\ fs'[p] = fs[p]

\* the two photo.jpg of the source tree were both moved into a directory that
\* held no photo.jpg before
TwoPhotosMoved ==
    /\ \E i, j \in 1..Len(hist.moves) :
          /\ hist.moves[i].id = "p" /\ hist.moves[j].id = "q"
          /\ hist.moves[i].destination.dir = hist.moves[j].destination.dir
          /\ FilePath(hist.moves[i].destination.dir, PhotoName) \notin DOMAIN hist.fs0

PhotoAndPhoto1 ==
    \E d \in dirs :
        LET first == FilePath(d, PhotoName)
            second == FilePath(d, Name("", "photo", << 1 >>, ".jpg"))
        IN  /\ first \in DOMAIN fs /\ second \in DOMAIN fs
            /\ { fs[first].id, fs[second].id } = { "p", "q" }

\* C3: under rename a move replaces no file that exists, the file goes to the
\* first name among name, name_1, name_2, ... that does not exist, and two
\* photo.jpg moved into one directory end as photo.jpg and photo_1.jpg.
C3_RenameNeverReplaces ==
    /\ [][policy = "rename" /\ OrganizeStepTaken => OthersKept /\ FirstFreeName]_vars
    /\ [](policy = "rename" /\ pc = "organized" /\ TwoPhotosMoved => PhotoAndPhoto1)

C3_Witness ==
    /\ policy = "rename" /\ pc = "organized" /\ TwoPhotosMoved /\ PhotoAndPhoto1
    /\ \E i \in 1..Len(hist.moves) :
          hist.moves[i].id = "q" /\ hist.moves[i].destination.name.sfx = << 1 >>

\* the file the loop is about to organize exists, and so does the path
\* proposed for it
Collides ==
    LET source_path == all_files[idx + 1]
    IN  /\ source_path \in DOMAIN fs
        /\ LET g == generate_destination_path(rules, fs[source_path],
                                              source_path.name, dest)
           IN  ~g.raised /\ FilePath(g.path, source_path.name) \in DOMAIN fs

\* C4: under skip, a file whose proposed destination exists stays where it is;
\* no file or directory changes, nothing is logged, no counter moves, and the
\* outcome is reported as skipped.
C4_SkipLeavesAll ==
    [][policy = "skip" /\ OrganizeStepTaken /\ Collides
         => /\ fs' = fs /\ dirs' = dirs
            /\ undo_log' = undo_log
            /\ stats' = stats
            /\ results'[Len(results')].kind = "skipped"]_vars

C4_Witness ==
    /\ policy = "skip" /\ ~dry_run /\ pc = "organized"
    /\ \E i \in 1..Len(results) : results[i].kind = "skipped"
    /\ \E i \in 1..Len(results) : results[i].kind = "moved"

\* the extensions of the model
Extensions == { ".jpg", ".JPG", ".pdf", ".Pdf", ".png", ".txt", ".xyz", "" }

\* the category the claim names for an extension: the first rule whose
\* extension set holds the lower-cased extension, Other when none does
FirstMatch(rs, ext, category) ==
    LET hits == { i \in 1..Len(rs) :
                    rs[i].rule.has_extensions /\ lower(ext) \in rs[i].rule.extensions }
    IN  IF hits = {} THEN category = "Other"
        ELSE \E i \in hits : (\A j \in hits : i <= j) /\ category = rs[i].name

\* C5: for every extension get_file_category returns the name of the first rule
\* whose extension set holds the lower-cased extension, Other when there is
\* none; .JPG and .jpg get the same category.
C5_Classify ==
    /\ \A ext \in Extensions :
          FirstMatch(rules, ext, get_file_category(rules, Name("", "f", <<>>, ext)))
    /\ get_file_category(rules, Name("", "f", <<>>, ".JPG"))
          = get_file_category(rules, Name("", "f", <<>>, ".jpg"))

\* the destination directory of a file is the root, the category, the
\* sub-bucket when there is one, the date segment when there is one
Composed(file, name) ==
    LET g == generate_destination_path(rules, file, name, dest)
        category == get_file_category(rules, name)
        rule == RuleOf(rules, category)
        subfolder == IF rule.has_subfolders THEN get_subfolder(name, rule.subfolders)
                     ELSE None
        date == IF rule.subfolder_by_date
                THEN strftime(file.date, IF rule.has_date_format THEN rule.date_format
                                         ELSE "%Y/%m")
                ELSE <<>>
        n == Len(dest)
        s == IF subfolder # None THEN 1 ELSE 0
    IN  ~g.raised
        => /\ Len(g.path) = n + 1 + s + Len(date)
           /\ SubSeq(g.path, 1, n) = dest
           /\ g.path[n + 1] = category
           /\ s = 1 => g.path[n + 2] = subfolder
           /\ SubSeq(g.path, n + 2 + s, Len(g.path)) = date

\* where the run put the file with this id, when it moved it
MovedTo(id, dir) ==
    \A i \in 1..Len(hist.moves) :
        hist.moves[i].id = id => hist.moves[i].destination.dir = dir

\* C6: the destination directory is root / category / [sub-bucket] / [date
\* segment]; under the default rules a.jpg of 2023-05 goes to
\* Images/2023/05 and b.pdf to Documents/PDFs below the root.
C6_DestinationPath ==
    /\ \A p \in DOMAIN fs : Composed(fs[p], p.name)
    /\ rules = DefaultRuleSet
          => /\ MovedTo("a", dest \o << "Images", "2023", "05" >>)
             /\ MovedTo("b", dest \o << "Documents", "PDFs" >>)
    /\ rules = CustomRuleSet => MovedTo("a", dest \o << "Pictures", "Misc", "2023" >>)

C6_Witness ==
    /\ rules = DefaultRuleSet /\ pc = "organized"
    /\ FilePath(dest \o << "Images", "2023", "05" >>, Name("", "a", <<>>, ".jpg"))
          \in DOMAIN fs
    /\ FilePath(dest \o << "Documents", "PDFs" >>, Name("", "b", <<>>, ".pdf"))
          \in DOMAIN fs

\* C7: undo handles the operations of the log newest first: of two operations
\* it handled, the later one of the log was handled before the earlier one.
C7_ReverseOrder ==
    \A i, j \in 1..Len(hist.undo_order) :
        i < j => hist.undo_order[i] > hist.undo_order[j]

C7_Witness ==
    /\ pc = "undone" /\ Len(hist.undo_order) >= 2
    /\ successful >= 2

\* the operation the loop of undo is about to handle cannot be restored: it
\* lacks a key, its file is not at the logged destination, or the filesystem
\* raises
CannotRestore ==
    LET operation == operations[uidx + 1]
    IN  \/ operation.shape \in { "no_source", "no_destination" }
        \/ operation.shape = "record" /\ operation.destination \notin DOMAIN fs
        \/ operation.shape = "record" /\ env' # env

\* C8: an operation that cannot be restored is counted as failed once, changes
\* no file and leaves the loop running; undo of a log of one entry whose file
\* was deleted ends with 0 restored, 1 failed.
C8_FailedOnceAndGoesOn ==
    /\ [][UndoStepTaken /\ CannotRestore
            => /\ failed' = failed + 1 /\ successful' = successful
               /\ fs' = fs
               /\ pc' = "undoing"]_vars
    /\ [](pc = "undone" /\ outcome.success /\ Len(operations) = 1
            /\ hist.deleted /\ ~hist.undo_cancelled
            => outcome.restored = 0 /\ outcome.failed = 1)

C8_Witness ==
    /\ pc = "undone" /\ outcome.success
    /\ Len(undo_results) = 2
    /\ undo_results[1] = "not_found" /\ undo_results[2] = "restored"
    /\ outcome.restored = 1 /\ outcome.failed = 1

\* organizing the file the loop is about to handle raises: resolving its
\* destination does, or the filesystem call does
Raises ==
    LET source_path == all_files[idx + 1]
    IN  /\ source_path \in DOMAIN fs
        /\ \/ env' # env
           \/ generate_destination_path(rules, fs[source_path],
                                        source_path.name, dest).raised

\* C9: a file whose processing raises is returned as a failed outcome, adds one
\* to the error counter and leaves the loop running; a run that is not
\* cancelled returns an outcome for every enumerated file.
C9_ErrorDoesNotAbort ==
    /\ [][OrganizeStepTaken /\ Raises
            => /\ stats'.errors = stats.errors + 1
               /\ stats'.moved = stats.moved
               /\ results' = Append(results, Result(FALSE, "error",
                                                    all_files[idx + 1], NoPath))
               /\ pc' = "organizing"]_vars
    /\ [](pc = "organized" /\ ~hist.cancelled => Len(results) = Len(all_files))

C9_Witness ==
    /\ pc = "organized" /\ Len(results) = 2
    /\ results[1].kind = "error" /\ results[2].kind = "moved"
    /\ stats = [moved |-> 1, errors |-> 1]

\* the log is unreadable, is not a list of operation records, or is empty
InvalidLog ==
    \/ log_file.json \in { "absent", "unreadable", "object", "number", "empty" }
    \/ log_file.ops = <<>>
    \/ \E i \in 1..Len(log_file.ops) : log_file.ops[i].shape = "number"

\* C10: undo of an unreadable, structurally invalid or empty log ends with a
\* reported failure, before any file is moved or directory removed, and never
\* with an uncaught exception.
C10_InvalidLogReported ==
    pc = "undone" /\ InvalidLog
        => /\ ~outcome.raised
           /\ ~outcome.success /\ outcome.message # ""
           /\ fs = hist.fs1 /\ dirs = hist.dirs1

\* the undo log lists the moves of the pass, one entry for each, in the order
\* they happened: as many entries as the moved counter says, each with the path
\* its file left and the path that file is at now
LogMatchesMoves ==
    /\ Len(undo_log) = stats.moved
    /\ Len(undo_log) = Len(hist.moves)
    /\ \A i \in 1..Len(undo_log) :
          /\ i <= Len(hist.moves)
          /\ undo_log[i].source = hist.moves[i].source
          /\ undo_log[i].destination = hist.moves[i].destination
          /\ hist.fs0[undo_log[i].source].id = hist.moves[i].id
          /\ undo_log[i].destination \in DOMAIN fs
          /\ fs[undo_log[i].destination].id = hist.moves[i].id
    /\ \A i, j \in 1..Len(undo_log) :
          i < j => undo_log[i].timestamp < undo_log[j].timestamp

\* C11 as stated: after every pass that is not a dry run the undo log holds one
\* MoveOperation for each moved file, in the order of the moves, as many as the
\* moved counter says, each with the path the file left and the path it is at.
C11_LogMatchesMovesAlways == pc = "organized" /\ ~dry_run => LogMatchesMoves

\* C11, amended: with undo-log creation enabled and the policy rename or skip,
\* after a pass that is not a dry run the undo log holds one MoveOperation for
\* each moved file, in the order of the moves, as many as the moved counter
\* says, each with the path the file left and the path it is at.
C11_LogMatchesMoves ==
    pc = "organized" /\ ~dry_run /\ create_undo_log /\ policy \in { "rename", "skip" }
        => LogMatchesMoves

C11_Witness ==
    /\ pc = "organized" /\ ~dry_run /\ create_undo_log /\ policy = "rename"
    /\ stats.moved = 2 /\ Len(undo_log) = 2
    /\ undo_log[2].destination.name.sfx # <<>>
    /\ LogMatchesMoves

\* the operations of a saved log that the run it was saved for did not log
Foreign(save) ==
    { k \in 1..Len(save.ops) : save.ops[k].timestamp \notin threads[save.run].logged }

\* (hist.overlapped: a run was started before an earlier one had returned and
\* its organization_complete had run)

\* C12: when the runs of one engine follow one another, the undo log saved at
\* the end of a run holds only operations of that run: the log saved after the
\* second run holds no operation of the first.
C12_SavedLogOfThatRunOnly ==
    ~hist.overlapped
        => \A i \in 1..Len(hist.saves) : Foreign(hist.saves[i]) = {}

\* C13: every run that moved a file saves its undo log under a fresh name: of
\* two runs that follow one another, the save of the second never replaces the
\* log file the first one wrote.
C13_SaveNeverOverwrites ==
    ~hist.overlapped
        => \A i \in 1..Len(hist.saves) :
              threads[hist.saves[i].run].logged # {} => ~hist.saves[i].replaced

\* two threads are in the loop of organize_folder, each with a file to handle
\* and the flag up
TwoPassesActive ==
    \E t, u \in DOMAIN threads :
        /\ t # u
        /\ running
        /\ threads[t].pc = "organizing" /\ threads[t].idx < Len(threads[t].all_files)
        /\ threads[u].pc = "organizing" /\ threads[u].idx < Len(threads[u].all_files)

\* C15: no interleaving of the Organize and Stop buttons with a running
\* organize thread leads to two organize passes of the engine being active at
\* once.
C15_OnePassAtATime == ~TwoPassesActive

\* every file the pass moved is at its destination when the pass has ended, and
\* its operation is in the undo log
MovedStay ==
    /\ \A i \in 1..Len(hist.moves) :
          /\ hist.moves[i].destination \in DOMAIN fs
          /\ policy # "overwrite"
                => fs[hist.moves[i].destination].id = hist.moves[i].id
    /\ create_undo_log
          => /\ Len(undo_log) = Len(hist.moves)
             /\ \A i \in 1..Len(undo_log) :
                   /\ undo_log[i].source = hist.moves[i].source
                   /\ undo_log[i].destination = hist.moves[i].destination

\* C14: the loop of organize_folder starts a file only with the running flag
\* up; clearing the flag, and everything the pass does while it is down, moves
\* no file back and takes nothing from the undo log; a cancelled pass has
\* handled fewer files than it enumerated and has left the files it moved at
\* their destinations and in the log.
C14_Cancellation ==
    /\ [][OrganizeStepTaken => running]_vars
    /\ [][pc = "organizing" /\ (~running \/ ~running')
            => /\ fs' = fs /\ dirs' = dirs
               /\ undo_log' = undo_log /\ stats' = stats
               /\ idx' = idx /\ results' = results]_vars
    /\ [](pc = "organized" /\ hist.cancelled
            => /\ Len(results) < Len(all_files)
               /\ stats.moved + stats.errors <= Len(results)
               /\ MovedStay)

C14_Witness ==
    /\ pc = "organized" /\ hist.cancelled /\ ~running
    /\ Len(all_files) = 2 /\ Len(results) = 1 /\ results[1].kind = "moved"
    /\ Len(undo_log) = 1
    /\ MovedStay

\* a directory that holds no file and no directory
EmptyDir(d) == (~\E p \in DOMAIN fs : p.dir = d) /\ Children(dirs, d) = {}

\* the reversal phase of undo has run, to its end or until the flag fell, and
\* undo has returned
ReversalDone == pc = "undone" /\ outcome.call = "undo" /\ outcome.success

\* C16: when undo has returned after its reversal phase, completed or cancelled
\* through the running flag, the cleanup pass has run and no empty directory
\* is left below the destination root the organize run wrote into.
C16_CleanupLeavesNoEmptyDir ==
    ReversalDone => \A d \in dirs : IsStrictPrefix(dest, d) => ~EmptyDir(d)

\* C17: a second cleanup pass right after the first changes nothing: the
\* directories and the files after it are those after the first pass, and
\* neither pass raises.
C17_CleanupIdempotent ==
    /\ pc = "cleaned twice" => dirs = hist.dirs1 /\ fs = hist.fs1
    /\ pc \in { "cleaned", "cleaned twice" } => outcome.call = "cleanup" /\ ~outcome.raised

C17_Witness ==
    /\ pc = "cleaned twice"
    /\ ConfiguredDest \o << "Images", "2023", "05" >> \in hist.dirs0
    /\ ConfiguredDest \o << "Documents", "PDFs" >> \in hist.dirs0
    /\ DOMAIN fs = { FilePath(ConfiguredDest \o << "Documents" >>, PhotoName) }
    /\ dirs = { SourceRoot, ConfiguredDest, ConfiguredDest \o << "Documents" >> }

\* what a dry-run pass started in the state the pass started in reports for a
\* file: a dry run changes nothing, so it handles every file in that state
DryRunOutcome(source_path) ==
    organize_file_on([fs |-> hist.fs0, dirs |-> hist.dirs0, undo_log |-> <<>>,
                      stats |-> [moved |-> 0, errors |-> 0]],
                     TRUE, source_path, "none").result

\* the outcome of the real pass is the one the dry run announced
AsAnnounced(real, announced) ==
    \/ real.kind = "moved" /\ announced.kind = "would_move"
          /\ real.destination = announced.destination
    \/ real.kind = "skipped" /\ announced.kind = "skipped"
    \/ real.kind = "error" /\ announced.kind = "error"

\* C18: for every file, the outcome a pass that is not a dry run produces (moved
\* to which path, or skipped as a duplicate) is the outcome a dry-run pass from
\* the same initial state reports for it.
C18_DryRunAnnouncesOutcomes ==
    [][~dry_run /\ OrganizeStepTaken /\ env' = env
         => AsAnnounced(results'[Len(results')], DryRunOutcome(all_files[idx + 1]))]_vars

\* an entry that is a rule: a JSON object that holds its extensions
WellFormed(e) == e.brace /\ e.rule # Unparsable /\ e.rule.has_extensions

\* C19: loading the rules skips an entry that is unparsable or malformed and
\* loads the others; neither the loading nor a classification with the loaded
\* rules ends in an uncaught exception.
C19_FailsClosedPerEntry ==
    /\ pc # "crashed"
    /\ pc = "constructed" => rules = get_rules(SelectSeq(config_rules, WellFormed))
    /\ ~outcome.raised

\* the name starts with a dot or a tilde
DotOrTilde(name) == name.pre = "." \/ name.pre = "~"

\* C20: no file whose name starts with a dot or a tilde is moved: every such
\* file is at its original path, unchanged; organize_folder enumerates, and the
\* undo log names as sources, only regular files of the tree that are not such
\* files; an organize step removes no directory.
C20_HiddenAndDirectoriesStay ==
    /\ [](\A p \in DOMAIN hist.fs0 :
             DotOrTilde(p.name) => p \in DOMAIN fs /\ fs[p] = hist.fs0[p])
    /\ [](\A i \in 1..Len(all_files) :
             all_files[i] \in DOMAIN hist.fs0 /\ ~DotOrTilde(all_files[i].name))
    /\ [](\A i \in 1..Len(undo_log) :
             /\ undo_log[i].source \in DOMAIN hist.fs0
             /\ ~DotOrTilde(undo_log[i].source.name))
    /\ [][OrganizeStepTaken => dirs \subseteq dirs']_vars

C20_Witness ==
    /\ pc = "organized" /\ ~dry_run /\ stats.moved = 2
    /\ \E p, q \in DOMAIN hist.fs0 :
          /\ p.name.pre = "." /\ q.name.pre = "~" /\ q.dir = << "S", "album.jpg" >>
          /\ p \in DOMAIN fs /\ q \in DOMAIN fs
    /\ << "S", "album.jpg" >> \in dirs
    /\ Len(all_files) = 2

\* the entries of the directory the probe looks into
EntriesOfProbeDir == { p \in DOMAIN fs : p.dir = probe.original.dir }

\* the proposed name with _k before the extension
NameK(k) ==
    FilePath(probe.original.dir,
             [probe.original.name EXCEPT !.sfx = Append(@, k)])

\* C21: the rename probe ends; it has then made at most as many existence
\* checks as the directory has entries, plus one, and returns a path that does
\* not exist: name_k.ext for the smallest k >= 1 that does not exist, which is
\* what handle_duplicate gives.
C21_ProbeTerminates ==
    /\ <>(probe.pc = "returned")
    /\ [](probe.checks <= Cardinality(EntriesOfProbeDir) + 1)
    /\ [](probe.pc = "returned"
            => /\ probe.destination \notin DOMAIN fs
               /\ \E k \in 1..(Cardinality(EntriesOfProbeDir) + 1) :
                     /\ probe.destination = NameK(k)
                     /\ \A j \in 1..(k - 1) : NameK(j) \in DOMAIN fs
               /\ probe.destination
                     = handle_duplicate(policy, DOMAIN fs, probe.original))

C21_Witness ==
    /\ probe.pc = "returned"
    /\ probe.checks = 4
    /\ probe.destination.name.sfx = << 3 >>
    /\ Cardinality(EntriesOfProbeDir) = 5

\* C22: undo destroys no file: a step of the undo loop leaves every file other
\* than the one it restores where it is and as it is, also a file that lies at
\* the path the restored file is moved back to.
C22_UndoDestroysNoFile ==
    [][UndoStepTaken
         => \A p \in DOMAIN fs :
               p # operations[uidx + 1].destination
                  => p \in DOMAIN fs' /\ fs'[p] = fs[p]]_vars

\* the paths at which the file that lay at p0 before the run lies now
NowAt(p0) == { p \in DOMAIN fs : fs[p].id = hist.fs0[p0].id }

\* C23: under rename and skip a run of organize_folder conserves the files: at
\* every point of the run and after it, each file that existed before the run
\* lies at exactly one path, its source path or a path below the destination
\* root, and there are no other files; also with the destination root inside
\* the source root.
C23_Conservation ==
    (/\ policy \in { "rename", "skip" }
     /\ pc \in { "organizing", "organized", "saved" }
     /\ ~hist.deleted)
        => /\ \A p0 \in DOMAIN hist.fs0 :
                 /\ Cardinality(NowAt(p0)) = 1
                 /\ \A p \in NowAt(p0) : p = p0 \/ IsPrefix(dest, p.dir)
           /\ Cardinality(DOMAIN fs) = Cardinality(DOMAIN hist.fs0)

\* a run with rename into a root inside the source has moved two files, one of
\* them under a numbered name, with a file of an earlier run below that root
C23_Witness ==
    /\ policy = "rename" /\ pc = "organized" /\ ~dry_run
    /\ dest = << "S", "Sorted" >>
    /\ \E p0 \in DOMAIN hist.fs0 : IsPrefix(dest, p0.dir)
    /\ Len(hist.moves) >= 2
    /\ \E i \in 1..Len(hist.moves) : hist.moves[i].destination.name.sfx # << >>
    /\ \A p0 \in DOMAIN hist.fs0 : Cardinality(NowAt(p0)) = 1

=============================================================================
